---- MODULE Spec2Model ----
(***************************************************************************)
(* Engine of multimodal_breast_analysis (engine/engine.py): the warmup()   *)
(* and train() loops, the teacher-stream cycling, the capture slots, the   *)
(* checkpoint hand-off and the object-level alignment step.                *)
(*                                                                         *)
(* Conventions.  Weights are version numbers: a network's version grows by *)
(* one at each step of its optimizer.  A checkpoint file is <<>> when it   *)
(* does not exist and <<v>> when it holds version v.  Metric values are    *)
(* in tenths (0.2 is 2).  A local variable that Python has not bound yet   *)
(* is <<>>, a bound one is <<value>>.  Averages are pairs <<sum, divisor>>.*)
(***************************************************************************)
EXTENDS Integers, Sequences, FiniteSets, TLC

\* ------------------------------------------------------------- bounds
MaxEpochs == 4
MaxDistillEpoch == 2
MaxWarmupEpochs == 2
MaxStudentBatches == 2
MaxTeacherBatches == 2
MaxKeys == 2
MaxCalls == 2
MaxImage == 5
MaxFeature == 3
MaxBatch == 2
MaxBoxes == 2
MaxName == 2
MaxClasses == 2
MaxRows == 2
MaxWidth == 2

\* ------------------------------------------------------------- inputs
Networks == {"student", "teacher"}
DistillModes == {"pretraining", "object_level", "image_level"}
Methods == {"warmup", "train"}
Paths == {"last_student_cp", "best_student_cp", "last_teacher_cp", "best_teacher_cp"}
\* scalar values a metric of the evaluator can take, in tenths
MetricVals == {-1, 2, 3, 5}
\* values of a batch's detection loss and of a batch's distillation (or similarity) loss
BaseVals == {1, 2}
DistillVals == {3}

RECURSIVE SeqsUpTo(_, _)
SeqsUpTo(S, n) ==
    IF n = 0 THEN {<<>>}
    ELSE LET shorter == SeqsUpTo(S, n - 1)
         IN shorter \cup {Append(s, x) : s \in {t \in shorter : Len(t) = n - 1}, x \in S}

\* The keys of the record test() returns are fixed by the class names and the metric
\* backend; a key matters to the engine only by the substring it contains: "mAP",
\* "mean_sensitivity" or neither of them ("AP").  A key shape is the keys in order.
StudentShapes == SeqsUpTo({"mAP", "AP"}, MaxKeys)
TeacherShapes == SeqsUpTo({"mean_sensitivity", "mAP"}, MaxKeys)

\* the records of a shape: one value per key
RecordsOf(shape) ==
    {rec \in [1..Len(shape) -> [kind : {"mAP", "mean_sensitivity", "AP"}, val : MetricVals]] :
        \A i \in 1..Len(shape) : rec[i].kind = shape[i]}

Configs ==
    [epochs : 0..MaxEpochs, distill_epoch : 0..MaxDistillEpoch, distill_mode : DistillModes,
     warmup_epochs : 0..MaxWarmupEpochs, cross_align : BOOLEAN]
Loaders == [student : 0..MaxStudentBatches, teacher : 0..MaxTeacherBatches]
Shapes == [student : StudentShapes, teacher : TeacherShapes]

\* The engines the model is run on.  One train() call over every stream length, phase
\* threshold and mode; one train() call over every key shape; one warmup() call; and
\* short runs behind every sequence of calls.
Setup(c, l, k, s) == [config |-> c, loader_len |-> l, metric_keys |-> k, script |-> s]
TrainSetups ==
    {Setup(c, l, [student |-> <<"mAP">>, teacher |-> <<"mAP">>], <<"train">>) :
        c \in {x \in Configs : x.warmup_epochs = 0 /\ ~x.cross_align}, l \in Loaders}
RecordSetups ==
    {Setup(c, [student |-> 1, teacher |-> 1], [student |-> k, teacher |-> <<"mAP">>], <<"train">>) :
        c \in {x \in Configs : /\ x.warmup_epochs = 0 /\ ~x.cross_align
                               /\ x.distill_epoch = 1 /\ x.distill_mode = "image_level"},
        k \in StudentShapes}
WarmupSetups ==
    {Setup(c, l, [student |-> <<"mAP">>, teacher |-> k], <<"warmup">>) :
        c \in {x \in Configs : /\ x.epochs = 0 /\ x.distill_epoch = 0
                               /\ x.distill_mode = "pretraining"},
        l \in {x \in Loaders : x.student = 1}, k \in TeacherShapes}
SequenceSetups ==
    {Setup(c, [student |-> 1, teacher |-> 1],
           [student |-> <<"mAP">>, teacher |-> <<"mean_sensitivity">>], s) :
        c \in {x \in Configs : x.epochs <= 1 /\ x.warmup_epochs <= 1 /\ x.distill_epoch = 0},
        s \in {x \in SeqsUpTo(Methods, MaxCalls) : Len(x) >= 2}}
Setups == TrainSetups \cup RecordSetups \cup WarmupSetups \cup SequenceSetups

VARIABLES
    config,         \* self.config.train: epochs, distill_epoch, distill_mode, warmup_epochs, cross_align
    loader_len,     \* len(self.student_trainloader), len(self.teacher_trainloader)
    metric_keys,    \* per role, the key shape of the record test() returns
    script,         \* the methods the driver still calls on the Engine, in order
    call,           \* the method running, or the last one that ran ("none" before the first)
    pc,             \* position inside the running method
    err,            \* the exception that escaped ("none" while there is none)
    weights,        \* version of each network's parameters
    training,       \* each network's train/eval mode flag
    opt_steps,      \* steps taken by each network's optimizer
    sched_steps,    \* steps taken by each network's scheduler
    cp,             \* the checkpoint files
    epoch,          \* loop variable of the epoch loop
    batch_num,      \* loop variable of the batch loop
    teacher_iter,   \* items already taken from the current teacher iterator
    teacher_batch,  \* position, in its iterator, of the teacher batch drawn last
    base_loss, distill_loss, total_loss,
    epoch_total_loss, epoch_base_loss, epoch_distill_loss,
    current_metrics, current_metric, best_metric,
    hooks,          \* capture hooks registered on each network's backbone
    features,       \* self.features: per network, the activation captured last
    param_groups,   \* parameter groups added to the student optimizer after construction
    graph,          \* networks whose parameters received a gradient from the last backward()
    step,           \* the locals of one object-level alignment step (lines 472-593)
    report,         \* the locals of one test() call (lines 644-753)
    torn,           \* checkpoint paths that torch.save has opened and not finished writing
    kd,             \* the arguments and the result of one distill_loss() call (lines 321-329)
    sels,           \* history: the values compared at line 638 in the epochs of the
                    \* interruptible run, in order
    \* ---- history variables (observations, never read by the program)
    entry,          \* teacher-side state at the entry of the running method
    fwd,            \* networks that ran a forward pass, and how, in the running method
    wrote,          \* checkpoint paths written in the current epoch
    iters_made,     \* teacher iterators created in the running train()
    draws,          \* teacher batches drawn in the current epoch
    dsteps,         \* distillation steps started in the running train()
    distilled,      \* whether the current epoch ran a distillation step
    batch_losses,   \* the loss values of the training steps completed in the current epoch
    on_scenario     \* the run's selection values so far are a prefix of Scenario

vars == <<config, loader_len, metric_keys, script, call, pc, err, weights, training, opt_steps,
          sched_steps, cp, epoch, batch_num, teacher_iter, teacher_batch,
          base_loss, distill_loss, total_loss,
          epoch_total_loss, epoch_base_loss, epoch_distill_loss,
          current_metrics, current_metric, best_metric, hooks, features, param_groups, graph,
          step, report, torn, kd, sels, entry, fwd, wrote, iters_made, draws, dsteps, distilled, batch_losses,
          on_scenario>>

\* ------------------------------------------------------------- helpers
L == loader_len.student
M == loader_len.teacher

engine == <<weights, training, opt_steps, sched_steps, cp, hooks, features, param_groups>>
losses == <<base_loss, distill_loss, total_loss>>
accumulators == <<epoch_total_loss, epoch_base_loss, epoch_distill_loss>>
selection == <<current_metrics, current_metric, best_metric>>
stream == <<teacher_iter, teacher_batch>>
setup == <<config, loader_len, metric_keys, step, report, torn, kd, sels>>
history == <<entry, fwd, wrote, iters_made, draws, dsteps, distilled, batch_losses, on_scenario>>

\* a loss tensor: its value and the networks whose parameters its graph reaches
Tensor(v, d) == [val |-> v, deps |-> d]
\* torch.tensor(0), engine.py line 364
ZeroTensor == Tensor(0, {})

\* one forward pass of network n through its tapped backbone: every hook registered
\* on it stores the output in self.features[n] (lines 204-207, 334-337)
Captured(n, phase, grad) ==
    IF hooks[n] > 0
    THEN [features EXCEPT ![n] = <<[phase |-> phase, epoch |-> epoch, batch |-> batch_num,
                                   grad |-> grad]>>]
    ELSE features

Ran(n, phase, grad, mode) == [net |-> n, phase |-> phase, grad |-> grad, train |-> mode]

NoError == [type |-> "none", line |-> 0]
\* an exception of type e raised at source line n escapes from the running method
Raise(e, n) == /\ pc' = "error"
               /\ err' = [type |-> e, line |-> n]

Snapshot == [weights |-> weights, opt_steps |-> opt_steps, sched_steps |-> sched_steps,
             cp |-> cp]

\* ------------------------------------------------------------- construction
\* the Engine after __init__ (lines 29-156), before any method is called
Constructed(s) ==
    /\ config = s.config
    /\ loader_len = s.loader_len
    /\ metric_keys = s.metric_keys
    /\ script = s.script
    /\ call = "none"
    /\ pc = "idle"
    /\ err = NoError
    /\ weights = [n \in Networks |-> 0]
    /\ training = [n \in Networks |-> TRUE]
    /\ opt_steps = [n \in Networks |-> 0]
    /\ sched_steps = [n \in Networks |-> 0]
    /\ cp = [p \in Paths |-> <<>>]
    /\ torn = {}
    /\ sels = <<>>
    /\ hooks = [n \in Networks |-> 0]
    /\ features = [n \in Networks |-> <<>>]
    /\ param_groups = 0
    /\ epoch = 0
    /\ batch_num = 0
    /\ teacher_iter = 0
    /\ teacher_batch = 0
    /\ base_loss = ZeroTensor
    /\ distill_loss = ZeroTensor
    /\ total_loss = ZeroTensor
    /\ epoch_total_loss = <<0, 1>>
    /\ epoch_base_loss = <<0, 1>>
    /\ epoch_distill_loss = <<0, 1>>
    /\ current_metrics = <<>>
    /\ current_metric = <<>>
    /\ best_metric = 0
    /\ graph = {}
    /\ entry = Snapshot
    /\ fwd = {}
    /\ wrote = {}
    /\ iters_made = 0
    /\ draws = 0
    /\ dsteps = 0
    /\ distilled = FALSE
    /\ batch_losses = <<>>
    /\ on_scenario = FALSE

\* no alignment step under way
IdleStep == [stage |-> "idle", image |-> <<>>, fmap |-> <<>>, target |-> <<>>, boxes |-> <<>>,
             negative |-> <<>>, selected |-> <<>>, loss |-> <<>>, err |-> NoError]

\* no test() call under way
\* no distill_loss() call under way
IdleLoss == [stage |-> "idle", student_outputs |-> <<>>, teacher_outputs |-> <<>>,
             alpha |-> <<>>, T |-> <<>>, train |-> [alpha |-> 1, temperature |-> 1],
             out |-> "none"]

IdleReport == [stage |-> "idle", mode |-> "none", classes |-> <<>>, metric_dict |-> {},
               new_dict |-> {}]

Init ==
    /\ \E s \in Setups : Constructed(s)
    /\ step = IdleStep
    /\ report = IdleReport
    /\ kd = IdleLoss

\* ------------------------------------------------------------- pure steps of the code
\* the branch taken in every epoch of a distilling mode
Distilling_Always(e) == config.distill_mode # "pretraining"

\* the branch taken only after the threshold epoch
Distilling_After(e) == e > config.distill_epoch /\ config.distill_mode # "pretraining"
\* the threshold compared with the one-based epoch number
Distilling_OneBased(e) == e + 1 >= config.distill_epoch /\ config.distill_mode # "pretraining"

\* line 384: the condition under which a training step takes the distillation branch
Distilling(e) == e >= config.distill_epoch /\ config.distill_mode # "pretraining"

\* a call of step() that advances twice
StepOnce_Twice(count, n) == [count EXCEPT ![n] = @ + 2]

\* lines 609 and 617, 297 and 300: one call of optimizer.step() or scheduler.step() of
\* network n
StepOnce(count, n) == [count EXCEPT ![n] = @ + 1]

\* the draw without the except clause: exhaustion escapes
NextTeacher_NoRetry(it, m) ==
    IF it < m
    THEN [raised |-> FALSE, batch |-> it, iter |-> it + 1, fresh |-> 0]
    ELSE [raised |-> TRUE, batch |-> 0, iter |-> it, fresh |-> 0]
\* the draw that gives up an iterator one batch before its end
NextTeacher_EarlyRestart(it, m) ==
    IF it + 1 < m
    THEN [raised |-> FALSE, batch |-> it, iter |-> it + 1, fresh |-> 0]
    ELSE IF m > 0
         THEN [raised |-> FALSE, batch |-> 0, iter |-> 1, fresh |-> 1]
         ELSE [raised |-> TRUE, batch |-> 0, iter |-> 0, fresh |-> 1]

\* lines 385-389: next(teacher_iter), and on StopIteration a fresh iterator and a retry.
\* it = items already taken from the current iterator, m = len(self.teacher_trainloader)
NextTeacher(it, m) ==
    IF it < m
    THEN [raised |-> FALSE, batch |-> it, iter |-> it + 1, fresh |-> 0]
    ELSE IF m > 0
         THEN [raised |-> FALSE, batch |-> 0, iter |-> 1, fresh |-> 1]
         ELSE [raised |-> TRUE, batch |-> 0, iter |-> 0, fresh |-> 1]

\* lines 635-637 and 312-314: the loop that keeps the value of the last key containing
\* `kind`; with no such key the variable keeps what it held (prev)
LastWith(rec, kind, prev) ==
    LET hits == {i \in 1..Len(rec) : rec[i].kind = kind}
    IN IF hits = {} THEN prev
       ELSE <<rec[CHOOSE i \in hits : \A j \in hits : j <= i].val>>

\* the comparison made with the initial value instead of the running best
IsBest_OverInitial(cur, best) == cur >= 0

\* the 'best' write made unconditional
IsBest_Always(cur, best) == TRUE
\* the comparison made strict: a tie does not write
IsBest_Strict(cur, best) == cur > best

\* lines 638 and 315: the comparison that decides the 'best' write
IsBest(cur, best) == cur >= best

\* save() with the two branches' networks exchanged
Saved_OtherNetwork(mode, path) ==
    [cp EXCEPT ![path] = <<weights[IF mode = "student" THEN "teacher" ELSE "student"]>>]

\* lines 159-174: save(mode, path) writes the network's state_dict to path
Saved(mode, path) == [cp EXCEPT ![path] = <<weights[mode]>>]

\* a loop that also runs for e = n
InRange_Inclusive(e, n) == e <= n

\* lines 368 and 212: for epoch in range(n)
InRange(e, n) == e < n

\* the selection-metric sequence of the spec's checkpoint scenario, in tenths
Scenario == <<2, 5, 3, 5>>
FollowsScenario(on, e, v) == on /\ e + 1 <= Len(Scenario) /\ v = <<Scenario[e + 1]>>

\* ------------------------------------------------------------- train()
\* lines 332-367: _instantiate_kd() and the locals of train()
TrainCall ==
    /\ pc = "idle" /\ script # <<>> /\ Head(script) = "train"
    /\ script' = Tail(script)
    /\ call' = "train"
    /\ hooks' = [n \in Networks |-> hooks[n] + 1]
    /\ entry' = Snapshot
    /\ epoch' = 0
    /\ batch_num' = 0
    /\ base_loss' = ZeroTensor
    /\ distill_loss' = ZeroTensor
    /\ total_loss' = ZeroTensor
    /\ epoch_total_loss' = <<0, 1>>
    /\ epoch_base_loss' = <<0, 1>>
    /\ epoch_distill_loss' = <<0, 1>>
    /\ current_metrics' = <<>>
    /\ best_metric' = 0
    /\ current_metric' = <<0>>
    /\ graph' = {}
    /\ wrote' = {}
    /\ draws' = 0
    /\ dsteps' = 0
    /\ distilled' = FALSE
    /\ batch_losses' = <<>>
    /\ on_scenario' = TRUE
    /\ teacher_batch' = 0
    /\ IF config.distill_mode = "image_level" /\ (L = 0 \/ M = 0)
       THEN \* lines 342-343: next(iter(loader)) on an empty loader
            /\ Raise("StopIteration", IF L = 0 THEN 342 ELSE 343)
            /\ features' = [n \in Networks |-> <<>>]
            /\ fwd' = {}
            /\ UNCHANGED <<param_groups, teacher_iter, iters_made>>
       ELSE /\ pc' = "t_epoch"
            /\ err' = err
            /\ teacher_iter' = 0
            /\ iters_made' = 1
            /\ IF config.distill_mode = "image_level"
               THEN \* lines 342-355: one probing forward of each network under no_grad
                    /\ features' = [n \in Networks |->
                                      <<[phase |-> "probe", epoch |-> 0, batch |-> 0, grad |-> FALSE]>>]
                    /\ fwd' = {Ran(n, "probe", FALSE, training[n]) : n \in Networks}
                    /\ param_groups' = param_groups + 1
               ELSE /\ features' = [n \in Networks |-> <<>>]
                    /\ fwd' = {}
                    /\ param_groups' = IF config.distill_mode = "object_level"
                                       THEN param_groups + 1 ELSE param_groups
    /\ UNCHANGED <<setup, weights, training, opt_steps, sched_steps, cp>>

\* an accumulator that keeps what the epoch before left in it
Zeroed_Carried(acc) == <<acc[1], 1>>

\* lines 370-372 and 214-216: an accumulator is bound to 0 at the start of an epoch,
\* whatever it held
Zeroed(acc) == <<0, 1>>

\* lines 368-374: the head of the epoch loop and the start of an epoch
TrainEpochBegin ==
    /\ pc = "t_epoch" /\ call = "train"
    /\ InRange(epoch, config.epochs)
    /\ epoch_total_loss' = Zeroed(epoch_total_loss)
    /\ epoch_base_loss' = Zeroed(epoch_base_loss)
    /\ epoch_distill_loss' = Zeroed(epoch_distill_loss)
    /\ training' = [n \in Networks |-> TRUE]
    /\ batch_num' = 0
    /\ wrote' = {}
    /\ draws' = 0
    /\ distilled' = FALSE
    /\ batch_losses' = <<>>
    /\ pc' = IF L > 0 THEN "t_student" ELSE "t_average"
    /\ UNCHANGED <<setup, script, call, err, weights, opt_steps, sched_steps, cp, hooks,
                   features, param_groups, epoch, stream, losses, selection, graph,
                   entry, fwd, iters_made, dsteps, on_scenario>>

\* line 368: range(epochs) is exhausted, train() returns
TrainReturn ==
    /\ pc = "t_epoch" /\ call = "train"
    /\ ~InRange(epoch, config.epochs)
    /\ pc' = "idle"
    /\ UNCHANGED <<setup, script, call, err, engine, epoch, batch_num, stream, losses,
                   accumulators, selection, graph, history>>

\* lines 375-384: the student forward on the next student batch, and the branch
StudentForward ==
    /\ pc = "t_student"
    /\ \E v \in BaseVals : base_loss' = Tensor(v, {"student"})
    /\ features' = Captured("student", "step", TRUE)
    /\ fwd' = fwd \cup {Ran("student", "step", TRUE, training.student)}
    /\ pc' = IF Distilling(epoch) THEN "t_draw" ELSE "t_backward"
    /\ UNCHANGED <<setup, script, call, err, weights, training, opt_steps, sched_steps, cp,
                   hooks, param_groups, epoch, batch_num, stream, distill_loss, total_loss,
                   accumulators, selection, graph,
                   entry, wrote, iters_made, draws, dsteps, distilled, batch_losses,
                   on_scenario>>

\* lines 385-390: one teacher batch for this student batch
TeacherDraw ==
    /\ pc = "t_draw"
    /\ LET d == NextTeacher(teacher_iter, M)
       IN /\ teacher_iter' = d.iter
          /\ teacher_batch' = d.batch
          /\ iters_made' = iters_made + d.fresh
          /\ IF d.raised
             THEN Raise("StopIteration", 389) /\ UNCHANGED <<draws, dsteps, distilled>>
             ELSE /\ pc' = "t_teacher"
                  /\ err' = err
                  /\ draws' = draws + 1
                  /\ dsteps' = dsteps + 1
                  /\ distilled' = TRUE
    /\ UNCHANGED <<setup, script, call, engine, epoch, batch_num, losses, accumulators,
                   selection, graph, entry, fwd, wrote, batch_losses, on_scenario>>

\* the teacher forward that leaves the capture table as it was
TeacherCapture_Stale == features

\* the teacher forward outside torch.no_grad()
TeacherCapture_WithGrad == Captured("teacher", "step", TRUE)

\* lines 465-467: the teacher forward runs inside torch.no_grad(), so the activation
\* its hook captures carries no graph
TeacherCapture == Captured("teacher", "step", FALSE)

\* lines 465-469: the teacher forward in eval mode under no_grad, then both slots are read
TeacherForward ==
    /\ pc = "t_teacher"
    /\ training' = [training EXCEPT !.teacher = FALSE]
    /\ features' = TeacherCapture
    /\ fwd' = fwd \cup {Ran("teacher", "step", FALSE, FALSE)}
    /\ pc' = "t_align"
    /\ UNCHANGED <<setup, script, call, err, weights, opt_steps, sched_steps, cp, hooks,
                   param_groups, epoch, batch_num, stream, losses, accumulators, selection,
                   graph, entry, wrote, iters_made, draws, dsteps, distilled, batch_losses,
                   on_scenario>>

\* ------------------------------------------------------------- object-level alignment
\* A box is <<xmin, ymin, xmax, ymax>>, a target is the boxes of one sample, a batch is
\* the targets of its samples.  A map position is <<row, column>>.
Roles == {"student", "teacher"}

\* line 485: at most this many out-of-box positions are sampled per sample
NegativeSamples == 9

\* lines 573-574: the anchors, in the order in which they are stacked
AnchorNames == <<"botleft", "botright", "topleft", "topright", "center",
                 "left", "right", "top", "bot">>

\* Tensor.round() of the non-negative quotient num / den: a half goes to the even side
RoundHalfEven(num, den) ==
    LET q == num \div den
        r == num % den
    IN IF 2 * r < den THEN q
       ELSE IF 2 * r > den THEN q + 1
       ELSE IF q % 2 = 0 THEN q ELSE q + 1

\* lines 473-476: every coordinate of every box times (map width - 1) / (image width - 1),
\* rounded
ScaleBoxes(batch, image, fmap) ==
    [i \in 1..Len(batch) |->
        [b \in 1..Len(batch[i]) |->
            [c \in 1..4 |-> RoundHalfEven(batch[i][b][c] * (fmap.w - 1), image.w - 1)]]]

\* lines 480-483: the positions the mask leaves at 1: boxes_mask[ymin:ymax, xmin:xmax] = 0
\* clears the rows ymin..ymax-1 and the columns xmin..xmax-1 of every box
OutOfBox(boxes, fmap) ==
    {p \in (0..(fmap.h - 1)) \X (0..(fmap.w - 1)) :
        \A b \in 1..Len(boxes) :
            ~(/\ boxes[b][2] <= p[1] /\ p[1] < boxes[b][4]
              /\ boxes[b][1] <= p[2] /\ p[2] < boxes[b][3])}

\* line 485: min(9, number of out-of-box positions)
NegativeCount(boxes, fmap) ==
    LET n == Cardinality(OutOfBox(boxes, fmap))
    IN IF n < NegativeSamples THEN n ELSE NegativeSamples

\* the anchors read with row and column exchanged
Anchor_Transposed(b, a) ==
    LET cx == (b[1] + b[3]) \div 2
        cy == (b[2] + b[4]) \div 2
    IN CASE a = "botleft" -> <<b[1], b[2]>>
         [] a = "botright" -> <<b[3], b[2]>>
         [] a = "topleft" -> <<b[1], b[4]>>
         [] a = "topright" -> <<b[3], b[4]>>
         [] a = "center" -> <<cx, cy>>
         [] a = "left" -> <<b[1], cy>>
         [] a = "right" -> <<b[3], cy>>
         [] a = "top" -> <<cx, b[2]>>
         [] a = "bot" -> <<cx, b[4]>>

\* lines 496-520: the position each anchor reads for a box
Anchor(b, a) ==
    LET cx == (b[1] + b[3]) \div 2
        cy == (b[2] + b[4]) \div 2
    IN CASE a = "botleft" -> <<b[2], b[1]>>
         [] a = "botright" -> <<b[2], b[3]>>
         [] a = "topleft" -> <<b[4], b[1]>>
         [] a = "topright" -> <<b[4], b[3]>>
         [] a = "center" -> <<cy, cx>>
         [] a = "left" -> <<cy, b[1]>>
         [] a = "right" -> <<cy, b[3]>>
         [] a = "top" -> <<b[2], cx>>
         [] a = "bot" -> <<b[4], cx>>

\* a position the map can be indexed at (coordinates are never negative here)
InMap(p, fmap) == p[1] < fmap.h /\ p[2] < fmap.w

\* the activation of sample i at position p, one channel: a code that tells samples and
\* positions apart
Feature(i, p) == 100 * i + 10 * p[1] + p[2] + 1

\* rationals as pairs <<numerator, denominator>>
RatAdd(x, y) == <<x[1] * y[2] + y[1] * x[2], x[2] * y[2]>>
RatOver(x, n) == <<x[1], x[2] * n>>
RatEq(x, y) == x[1] * y[2] = y[1] * x[2]

RECURSIVE SumOfFeatures(_, _, _, _)
\* lines 495-497: sum([features[sample, :, row, column] for box_num in range(n)]) over the
\* first n boxes
SumOfFeatures(boxes, i, a, n) ==
    IF n = 0 THEN 0
    ELSE SumOfFeatures(boxes, i, a, n - 1) + Feature(i, Anchor(boxes[n], a))

\* lines 495-497: the sample's anchor feature, the sum over its boxes / num_boxes
SampleFeature(boxes, i, a) == <<SumOfFeatures(boxes, i, a, Len(boxes)), Len(boxes)>>

\* line 494: the samples that append to the anchor lists
Appending(scaled) == {i \in 1..Len(scaled) : Len(scaled[i]) > 0}

RECURSIVE SumOfSamples(_, _, _)
\* line 522: sum(list) over the samples up to n that appended
SumOfSamples(scaled, a, n) ==
    IF n = 0 THEN <<0, 1>>
    ELSE IF n \in Appending(scaled)
         THEN RatAdd(SumOfSamples(scaled, a, n - 1), SampleFeature(scaled[n], n, a))
         ELSE SumOfSamples(scaled, a, n - 1)

RECURSIVE SumOfBoxes(_, _, _)
\* the features of every box of the samples up to n, summed
SumOfBoxes(scaled, a, n) ==
    IF n = 0 THEN 0
    ELSE SumOfBoxes(scaled, a, n - 1) + SumOfFeatures(scaled[n], n, a, Len(scaled[n]))

RECURSIVE CountOfBoxes(_, _)
CountOfBoxes(scaled, n) == IF n = 0 THEN 0 ELSE CountOfBoxes(scaled, n - 1) + Len(scaled[n])

\* one mean over all the boxes of the batch
BatchFeature_Pooled(scaled, a) ==
    <<SumOfBoxes(scaled, a, Len(scaled)), CountOfBoxes(scaled, Len(scaled))>>

\* lines 522-530 and 564-572: sum(list) / len(list)
BatchFeature(scaled, a) ==
    RatOver(SumOfSamples(scaled, a, Len(scaled)), Cardinality(Appending(scaled)))

\* lines 573-574: the nine batch features, stacked
Selected(scaled) == [k \in 1..Len(AnchorNames) |-> BatchFeature(scaled, AnchorNames[k])]

\* line 487: torch.stack needs every sample's selection to have the same number of columns
Stackable(scaled, fmap) ==
    \A i, j \in 1..Len(scaled) :
        NegativeCount(scaled[i], fmap) = NegativeCount(scaled[j], fmap)

\* lines 496-520: every position read lies inside the map
Indexable(scaled, fmap) ==
    \A i \in 1..Len(scaled) : \A b \in 1..Len(scaled[i]) : \A k \in 1..Len(AnchorNames) :
        InMap(Anchor(scaled[i][b], AnchorNames[k]), fmap)

\* the exceptions the object-level step raises, with the first line that raises each
ObjectLevelErrors ==
    {[type |-> "RuntimeError", line |-> 487],
     [type |-> "IndexError", line |-> 496], [type |-> "ZeroDivisionError", line |-> 522],
     [type |-> "IndexError", line |-> 538], [type |-> "ZeroDivisionError", line |-> 564]}

\* the parameters a loss computed from the two captured activations reaches: the
\* student's and the projection's, and the teacher's if its activation carries a graph
AlignDeps ==
    {"student", "project"} \cup
    (IF features.teacher # <<>> /\ features.teacher[1].grad THEN {"teacher"} ELSE {})

\* lines 472-604: the alignment and the distillation loss
Align ==
    /\ pc = "t_align"
    /\ \/ /\ config.distill_mode = "object_level"
          /\ \/ /\ \E v \in DistillVals : distill_loss' = Tensor(v, AlignDeps)
                /\ pc' = "t_backward"
                /\ err' = err
             \/ /\ \E e \in ObjectLevelErrors : Raise(e.type, e.line)
                /\ UNCHANGED distill_loss
       \/ /\ config.distill_mode = "image_level"
          /\ \E v \in DistillVals : distill_loss' = Tensor(v, AlignDeps)
          /\ pc' = "t_backward"
          /\ err' = err
    /\ UNCHANGED <<setup, script, call, engine, epoch, batch_num, stream, base_loss,
                   total_loss, accumulators, selection, graph, history>>

Plus(acc, t) == <<acc[1] + t.val, acc[2]>>

\* the .item() values one training step adds to the three accumulators
StepLosses(total, base, distill) ==
    [total |-> total.val, base |-> base.val, distill |-> distill.val]

\* the base loss alone
Total_BaseOnly(base, distill) == base

\* line 606: total_loss = base_loss + distill_loss
Total(base, distill) == Tensor(base.val + distill.val, base.deps \cup distill.deps)

\* lines 606-612: the combined loss, the backward pass and the student optimizer step
BackwardStep ==
    /\ pc = "t_backward"
    /\ LET total == Total(base_loss, distill_loss)
       IN /\ total_loss' = total
          /\ graph' = total.deps
          /\ epoch_total_loss' = Plus(epoch_total_loss, total)
          /\ epoch_base_loss' = Plus(epoch_base_loss, base_loss)
          /\ epoch_distill_loss' = Plus(epoch_distill_loss, distill_loss)
          /\ batch_losses' = Append(batch_losses, StepLosses(total, base_loss, distill_loss))
    /\ weights' = [weights EXCEPT !.student = @ + 1]
    /\ opt_steps' = StepOnce(opt_steps, "student")
    /\ batch_num' = batch_num + 1
    /\ pc' = IF batch_num + 1 < L THEN "t_student" ELSE "t_average"
    /\ UNCHANGED <<setup, script, call, err, training, sched_steps, cp, hooks, features,
                   param_groups, epoch, stream, base_loss, distill_loss, selection,
                   entry, fwd, wrote, iters_made, draws, dsteps, distilled, on_scenario>>

Over(acc, n) == <<acc[1], n>>

\* lines 617-620: the scheduler step and the epoch averages
TrainAverage ==
    /\ pc = "t_average" /\ call = "train"
    /\ sched_steps' = StepOnce(sched_steps, "student")
    /\ IF L = 0
       THEN Raise("ZeroDivisionError", 618) /\ UNCHANGED accumulators
       ELSE /\ epoch_total_loss' = Over(epoch_total_loss, L)
            /\ epoch_base_loss' = Over(epoch_base_loss, L)
            /\ epoch_distill_loss' = Over(epoch_distill_loss, L)
            /\ pc' = "t_test"
            /\ err' = err
    /\ UNCHANGED <<setup, script, call, weights, training, opt_steps, cp, hooks, features,
                   param_groups, epoch, batch_num, stream, losses, selection, graph, history>>

\* lines 621-633 (and 644-753): test('student') and the merge of the three averages
TrainTest ==
    /\ pc = "t_test" /\ call = "train"
    /\ training' = [training EXCEPT !.student = FALSE]
    /\ features' = Captured("student", "test", FALSE)
    /\ fwd' = fwd \cup {Ran("student", "test", FALSE, FALSE)}
    /\ \E rec \in RecordsOf(metric_keys.student) :
          current_metrics' = rec \o <<[kind |-> "student_total_loss", val |-> epoch_total_loss],
                                      [kind |-> "student_base_loss", val |-> epoch_base_loss],
                                      [kind |-> "student_distill_loss", val |-> epoch_distill_loss]>>
    /\ pc' = "t_save"
    /\ UNCHANGED <<setup, script, call, err, weights, opt_steps, sched_steps, cp, hooks,
                   param_groups, epoch, batch_num, stream, losses, accumulators,
                   current_metric, best_metric, graph,
                   entry, wrote, iters_made, draws, dsteps, distilled, batch_losses,
                   on_scenario>>

\* the epoch goes on to the selection without its 'last' write
TrainSaveLast_Skipped ==
    /\ pc = "t_save" /\ call = "train"
    /\ pc' = "t_select"
    /\ UNCHANGED <<setup, script, call, err, engine, epoch, batch_num, stream, losses,
                   accumulators, selection, graph, history>>

\* line 634: the 'last' checkpoint of the student
TrainSaveLast ==
    /\ pc = "t_save" /\ call = "train"
    /\ cp' = Saved("student", "last_student_cp")
    /\ wrote' = wrote \cup {"last_student_cp"}
    /\ pc' = "t_select"
    /\ UNCHANGED <<setup, script, call, err, weights, training, opt_steps, sched_steps, hooks,
                   features, param_groups, epoch, batch_num, stream, losses, accumulators,
                   selection, graph, entry, fwd, iters_made, draws, dsteps, distilled,
                   batch_losses, on_scenario>>

\* lines 635-641: the selection value and the 'best' checkpoint of the student
TrainSelectBest ==
    /\ pc = "t_select" /\ call = "train"
    /\ LET cur == LastWith(current_metrics, "mAP", current_metric)
       IN /\ current_metric' = cur
          /\ on_scenario' = FollowsScenario(on_scenario, epoch, cur)
          /\ IF IsBest(cur[1], best_metric)
             THEN /\ best_metric' = cur[1]
                  /\ cp' = Saved("student", "best_student_cp")
                  /\ wrote' = wrote \cup {"best_student_cp"}
             ELSE UNCHANGED <<best_metric, cp, wrote>>
    /\ epoch' = epoch + 1
    /\ current_metrics' = <<>>
    /\ pc' = "t_epoch"
    /\ UNCHANGED <<setup, script, call, err, weights, training, opt_steps, sched_steps, hooks,
                   features, param_groups, batch_num, stream, losses, accumulators, graph,
                   entry, fwd, iters_made, draws, dsteps, distilled,
                   batch_losses>>

\* ------------------------------------------------------------- warmup()
\* lines 200-211: the optional capture hook on the teacher and the locals of warmup();
\* current_metric is not bound before the loop
WarmupCall ==
    /\ pc = "idle" /\ script # <<>> /\ Head(script) = "warmup"
    /\ script' = Tail(script)
    /\ call' = "warmup"
    /\ pc' = "w_epoch"
    /\ hooks' = IF config.cross_align THEN [hooks EXCEPT !.teacher = @ + 1] ELSE hooks
    /\ features' = IF config.cross_align THEN [n \in Networks |-> <<>>] ELSE features
    /\ entry' = Snapshot
    /\ epoch' = 0
    /\ batch_num' = 0
    /\ base_loss' = ZeroTensor
    /\ distill_loss' = ZeroTensor
    /\ total_loss' = ZeroTensor
    /\ epoch_total_loss' = <<0, 1>>
    /\ epoch_base_loss' = <<0, 1>>
    /\ epoch_distill_loss' = <<0, 1>>
    /\ current_metrics' = <<>>
    /\ best_metric' = 0
    /\ current_metric' = <<>>
    /\ graph' = {}
    /\ fwd' = {}
    /\ wrote' = {}
    /\ draws' = 0
    /\ dsteps' = 0
    /\ iters_made' = 0
    /\ distilled' = FALSE
    /\ batch_losses' = <<>>
    /\ on_scenario' = FALSE
    /\ UNCHANGED <<setup, err, weights, training, opt_steps, sched_steps, cp, param_groups,
                   stream>>

\* lines 212-216: the head of the epoch loop and the start of a warmup epoch
WarmupEpochBegin ==
    /\ pc = "w_epoch" /\ call = "warmup"
    /\ InRange(epoch, config.warmup_epochs)
    /\ epoch_total_loss' = Zeroed(epoch_total_loss)
    /\ epoch_base_loss' = Zeroed(epoch_base_loss)
    /\ epoch_distill_loss' = Zeroed(epoch_distill_loss)
    /\ batch_num' = 0
    /\ wrote' = {}
    /\ batch_losses' = <<>>
    /\ pc' = IF M > 0 THEN "w_step" ELSE "w_average"
    /\ UNCHANGED <<setup, script, call, err, engine, epoch, stream, losses, selection, graph,
                   entry, fwd, iters_made, draws, dsteps, distilled, on_scenario>>

\* line 212: range(warmup_epochs) is exhausted, warmup() returns
WarmupReturn ==
    /\ pc = "w_epoch" /\ call = "warmup"
    /\ ~InRange(epoch, config.warmup_epochs)
    /\ pc' = "idle"
    /\ UNCHANGED <<setup, script, call, err, engine, epoch, batch_num, stream, losses,
                   accumulators, selection, graph, history>>

\* lines 217-297: one teacher training step: forward in train mode with gradients, the
\* optional cross-alignment term, backward, teacher optimizer step.  In warmup() the
\* accumulators epoch_detection_loss and epoch_similarity_loss are epoch_base_loss and
\* epoch_distill_loss of the model, and sim_loss is distill_loss.
WarmupStep ==
    /\ pc = "w_step" /\ call = "warmup"
    /\ training' = [training EXCEPT !.teacher = TRUE]
    /\ features' = Captured("teacher", "warmup", TRUE)
    /\ fwd' = fwd \cup {Ran("teacher", "warmup", TRUE, TRUE)}
    /\ \E v \in BaseVals, has_boxes \in BOOLEAN :
          IF config.cross_align /\ ~has_boxes
          THEN \* line 276: torch.stack of an empty list
               /\ Raise("RuntimeError", 276)
               /\ base_loss' = Tensor(v, {"teacher"})
               /\ epoch_base_loss' = Plus(epoch_base_loss, base_loss')
               /\ UNCHANGED <<distill_loss, total_loss, epoch_total_loss, epoch_distill_loss,
                              graph, weights, opt_steps, batch_num, batch_losses>>
          ELSE LET sim == IF config.cross_align
                          THEN Tensor(CHOOSE d \in DistillVals : TRUE, {"teacher"})
                          ELSE ZeroTensor
                   total == Tensor(v + sim.val, {"teacher"})
               IN /\ base_loss' = Tensor(v, {"teacher"})
                  /\ distill_loss' = sim
                  /\ total_loss' = total
                  /\ epoch_base_loss' = Plus(epoch_base_loss, base_loss')
                  /\ epoch_distill_loss' = Plus(epoch_distill_loss, sim)
                  /\ epoch_total_loss' = Plus(epoch_total_loss, total)
                  /\ batch_losses' = Append(batch_losses, StepLosses(total, base_loss', sim))
                  /\ graph' = total.deps
                  /\ weights' = [weights EXCEPT !.teacher = @ + 1]
                  /\ opt_steps' = StepOnce(opt_steps, "teacher")
                  /\ batch_num' = batch_num + 1
                  /\ pc' = IF batch_num + 1 < M THEN "w_step" ELSE "w_average"
                  /\ err' = err
    /\ UNCHANGED <<setup, script, call, sched_steps, cp, hooks, param_groups, epoch, stream,
                   selection, entry, wrote, iters_made, draws, dsteps, distilled,
                   on_scenario>>

\* lines 300-303: the teacher scheduler step and the epoch averages
WarmupAverage ==
    /\ pc = "w_average" /\ call = "warmup"
    /\ sched_steps' = StepOnce(sched_steps, "teacher")
    /\ IF M = 0
       THEN Raise("ZeroDivisionError", 301) /\ UNCHANGED accumulators
       ELSE /\ epoch_base_loss' = Over(epoch_base_loss, M)
            /\ epoch_distill_loss' = Over(epoch_distill_loss, M)
            /\ epoch_total_loss' = Over(epoch_total_loss, M)
            /\ pc' = "w_test"
            /\ err' = err
    /\ UNCHANGED <<setup, script, call, weights, training, opt_steps, cp, hooks, features,
                   param_groups, epoch, batch_num, stream, losses, selection, graph, history>>

\* lines 304-310 (and 644-753): test('teacher') and the merge of the training loss
WarmupTest ==
    /\ pc = "w_test" /\ call = "warmup"
    /\ training' = [training EXCEPT !.teacher = FALSE]
    /\ features' = Captured("teacher", "test", FALSE)
    /\ fwd' = fwd \cup {Ran("teacher", "test", FALSE, FALSE)}
    /\ \E rec \in RecordsOf(metric_keys.teacher) :
          current_metrics' = rec \o <<[kind |-> "teacher_loss", val |-> epoch_total_loss]>>
    /\ pc' = "w_save"
    /\ UNCHANGED <<setup, script, call, err, weights, opt_steps, sched_steps, cp, hooks,
                   param_groups, epoch, batch_num, stream, losses, accumulators,
                   current_metric, best_metric, graph,
                   entry, wrote, iters_made, draws, dsteps, distilled, batch_losses,
                   on_scenario>>

\* line 311: the 'last' checkpoint of the teacher
WarmupSaveLast ==
    /\ pc = "w_save" /\ call = "warmup"
    /\ cp' = Saved("teacher", "last_teacher_cp")
    /\ wrote' = wrote \cup {"last_teacher_cp"}
    /\ pc' = "w_select"
    /\ UNCHANGED <<setup, script, call, err, weights, training, opt_steps, sched_steps, hooks,
                   features, param_groups, epoch, batch_num, stream, losses, accumulators,
                   selection, graph, entry, fwd, iters_made, draws, dsteps, distilled,
                   batch_losses, on_scenario>>

\* lines 312-318: the selection value and the 'best' checkpoint of the teacher; reading
\* current_metric while it is not bound raises UnboundLocalError
WarmupSelectBest ==
    /\ pc = "w_select" /\ call = "warmup"
    /\ LET cur == LastWith(current_metrics, "mean_sensitivity", current_metric)
       IN /\ current_metric' = cur
          /\ IF cur = <<>>
             THEN Raise("UnboundLocalError", 315) /\ UNCHANGED <<best_metric, cp, wrote, epoch>>
             ELSE /\ IF IsBest(cur[1], best_metric)
                     THEN /\ best_metric' = cur[1]
                          /\ cp' = Saved("teacher", "best_teacher_cp")
                          /\ wrote' = wrote \cup {"best_teacher_cp"}
                     ELSE UNCHANGED <<best_metric, cp, wrote>>
                  /\ epoch' = epoch + 1
                  /\ pc' = "w_epoch"
                  /\ err' = err
    /\ current_metrics' = <<>>
    /\ UNCHANGED <<setup, script, call, weights, training, opt_steps, sched_steps, hooks,
                   features, param_groups, batch_num, stream, losses, accumulators, graph,
                   entry, fwd, iters_made, draws, dsteps, distilled, batch_losses,
                   on_scenario>>

Next ==
    \/ WarmupCall
    \/ WarmupEpochBegin
    \/ WarmupReturn
    \/ WarmupStep
    \/ WarmupAverage
    \/ WarmupTest
    \/ WarmupSaveLast
    \/ WarmupSelectBest
    \/ TrainCall
    \/ TrainEpochBegin
    \/ TrainReturn
    \/ StudentForward
    \/ TeacherDraw
    \/ TeacherForward
    \/ Align
    \/ BackwardStep
    \/ TrainAverage
    \/ TrainTest
    \/ TrainSaveLast
    \/ TrainSelectBest

Spec == Init /\ [][Next]_vars

\* ------------------------------------------------------------- one object-level step
\* The step of lines 472-593 on its own, over the batches it can be given.  Both images
\* have the size the shared transforms give them; each network has its own map size.
Images == {[w |-> MaxImage, h |-> MaxImage], [w |-> MaxImage, h |-> MaxImage - 1]}
Maps == [w : 1..MaxFeature, h : 1..MaxFeature]

\* the boxes drawn on an image: the whole image, one pixel, and an off-centre part
BoxChoices(image) ==
    <<  <<0, 0, image.w - 1, image.h - 1>>,
        <<0, 0, 0, 0>>,
        <<(image.w - 1) \div 2, 0, image.w - 1, (image.h - 1) \div 2>>  >>

\* a sample's target: at most MaxBoxes of the boxes, each at most once
Targets(image) ==
    {[b \in 1..Len(s) |-> BoxChoices(image)[s[b]]] :
        s \in {t \in SeqsUpTo(1..Len(BoxChoices(image)), MaxBoxes) :
                  \A i \in 1..(Len(t) - 1) : t[i] < t[i + 1]}}
Batches(image) == SeqsUpTo(Targets(image), MaxBatch) \ {<<>>}

\* the batches of the other stream: no box at all, a box in every sample, and both kinds
\* of sample
PlainBatches(image) ==
    {<< <<>> >>, << <<BoxChoices(image)[1]>> >>, << <<>>, <<BoxChoices(image)[1]>> >>}
PlainMaps == {m \in Maps : m.w = m.h /\ m.w \in {1, MaxFeature}}

AlignSetup ==
    Setup([epochs |-> 1, distill_epoch |-> 0, distill_mode |-> "object_level",
           warmup_epochs |-> 0, cross_align |-> FALSE],
          [student |-> 1, teacher |-> 1],
          [student |-> <<"mAP">>, teacher |-> <<"mAP">>], <<"train">>)

StepOn(image, smap, tmap, sbatch, tbatch) ==
    [stage |-> "scale", image |-> image,
     fmap |-> [student |-> smap, teacher |-> tmap],
     target |-> [student |-> sbatch, teacher |-> tbatch],
     boxes |-> <<>>, negative |-> <<>>, selected |-> [r \in Roles |-> <<>>],
     loss |-> <<>>, err |-> NoError]

InitAlign ==
    /\ Constructed(AlignSetup)
    /\ \E image \in Images :
          \/ \E smap \in Maps, tmap \in PlainMaps,
                sbatch \in Batches(image), tbatch \in PlainBatches(image) :
                step = StepOn(image, smap, tmap, sbatch, tbatch)
          \/ \E smap \in PlainMaps, tmap \in Maps,
                sbatch \in PlainBatches(image), tbatch \in Batches(image) :
                step = StepOn(image, smap, tmap, sbatch, tbatch)
    /\ report = IdleReport
    /\ kd = IdleLoss

program == <<config, loader_len, metric_keys, script, call, pc, err, engine, epoch, batch_num,
             stream, losses, accumulators, selection, graph, history, report, torn, kd,
             sels>>

StepRaise(e, n) == step' = [step EXCEPT !.stage = "error", !.err = [type |-> e, line |-> n]]

\* lines 473-476
ScaleTargets ==
    /\ step.stage = "scale"
    /\ step' = [step EXCEPT !.stage = "negative",
                            !.boxes = [r \in Roles |->
                                          ScaleBoxes(step.target[r], step.image, step.fmap[r])]]
    /\ UNCHANGED program

\* lines 478-487
SampleNegatives ==
    /\ step.stage = "negative"
    /\ IF Stackable(step.boxes.student, step.fmap.student)
       THEN step' = [step EXCEPT !.stage = "student",
                                 !.negative = <<NegativeCount(step.boxes.student[1],
                                                              step.fmap.student)>>]
       ELSE StepRaise("RuntimeError", 487)
    /\ UNCHANGED program

\* the aggregation that answers an empty list with zeros
Aggregate_ZeroWhenEmpty(r, first, last, then) ==
    IF ~Indexable(step.boxes[r], step.fmap[r])
    THEN StepRaise("IndexError", first)
    ELSE step' = [step EXCEPT !.stage = then,
                              !.selected[r] =
                                  IF Appending(step.boxes[r]) = {}
                                  THEN [k \in 1..Len(AnchorNames) |-> <<0, 1>>]
                                  ELSE Selected(step.boxes[r])]

\* lines 489-530 for the student, 531-572 for the teacher
Aggregate(r, first, last, then) ==
    IF ~Indexable(step.boxes[r], step.fmap[r])
    THEN StepRaise("IndexError", first)
    ELSE IF Appending(step.boxes[r]) = {}
         THEN StepRaise("ZeroDivisionError", last)
         ELSE step' = [step EXCEPT !.stage = then, !.selected[r] = Selected(step.boxes[r])]

AggregateStudent ==
    /\ step.stage = "student"
    /\ Aggregate("student", 496, 522, "teacher")
    /\ UNCHANGED program

AggregateTeacher ==
    /\ step.stage = "teacher"
    /\ Aggregate("teacher", 538, 564, "loss")
    /\ UNCHANGED program

\* lines 582-593
SelectedLoss ==
    /\ step.stage = "loss"
    /\ \E v \in DistillVals : step' = [step EXCEPT !.stage = "done", !.loss = <<v>>]
    /\ UNCHANGED program

\* lines 606-609: the backward pass and the student optimizer step that follow the loss
StepOptimizer ==
    /\ step.stage = "done"
    /\ step' = [step EXCEPT !.stage = "stepped"]
    /\ weights' = [weights EXCEPT !.student = @ + 1]
    /\ opt_steps' = [opt_steps EXCEPT !.student = @ + 1]
    /\ UNCHANGED <<config, loader_len, metric_keys, script, call, pc, err, training, sched_steps,
                   cp, hooks, features, param_groups, epoch, batch_num, stream, losses,
                   accumulators, selection, graph, history, report, torn, kd, sels>>

NextAlign ==
    \/ ScaleTargets
    \/ SampleNegatives
    \/ AggregateStudent
    \/ AggregateTeacher
    \/ SelectedLoss
    \/ StepOptimizer

SpecAlign == InitAlign /\ [][NextAlign]_vars

\* ------------------------------------------------------------- the record of test()
\* Strings are sequences of characters.  Class names are words over Letters; the metric
\* backend (COCOMetric with per-class results) names its class-independent metrics
\* "AP...", "AR..." and a class's metrics class name + "_" + metric.
Letters == {"a", "b", "P"}
MetricNames == {<<"A", "P">>, <<"A", "R">>}
ClassNames == SeqsUpTo(Letters, MaxName) \ {<<>>}

\* classes_names of the config: the background class first, then the other classes, all
\* different
ClassLists ==
    {cl \in SeqsUpTo(ClassNames, MaxClasses) :
        /\ Len(cl) >= 2
        /\ \A i, j \in 1..Len(cl) : i # j => cl[i] # cl[j]}

\* Python's  c in k  on strings
Contains(c, k) ==
    \E i \in 0..(Len(k) - Len(c)) : SubSeq(k, i + 1, i + Len(c)) = c

\* line 689: the keys of metric_dict, each with the class it belongs to (0 for a metric of
\* no class)
MetricDict(classes) ==
    {[class |-> 0, key |-> m] : m \in MetricNames} \cup
    {[class |-> i, key |-> classes[i] \o <<"_">> \o m] : i \in 1..Len(classes), m \in MetricNames}

\* lines 749-751: a key is kept when some class after the first is contained in it
Kept(classes, k) == \E i \in 2..Len(classes) : Contains(classes[i], k)

\* line 752: mode + ": " + k
RoleKey(mode, k) == <<mode, ":", " ">> \o k

\* lines 748-753: new_dict, each key with the entry of metric_dict it was made from
NewDict(mode, classes, metric_dict) ==
    {[key |-> RoleKey(mode, e.key), from |-> e] : e \in {d \in metric_dict : Kept(classes, d.key)}}

InitKeys ==
    /\ Constructed(AlignSetup)
    /\ step = IdleStep
    /\ kd = IdleLoss
    /\ \E mode \in Networks, cl \in ClassLists :
          report = [stage |-> "called", mode |-> mode, classes |-> cl, metric_dict |-> {},
                    new_dict |-> {}]

others == <<config, loader_len, metric_keys, script, call, pc, err, engine, epoch, batch_num,
            stream, losses, accumulators, selection, graph, history, step, torn, kd,
            sels>>

\* lines 664-689: the evaluation and the metrics of the backend
ComputeMetrics ==
    /\ report.stage = "called"
    /\ report' = [report EXCEPT !.stage = "computed", !.metric_dict = MetricDict(report.classes)]
    /\ UNCHANGED others

\* lines 748-753: the keys that are returned
FilterKeys ==
    /\ report.stage = "computed"
    /\ report' = [report EXCEPT !.stage = "returned",
                                !.new_dict = NewDict(report.mode, report.classes,
                                                     report.metric_dict)]
    /\ UNCHANGED others

NextKeys ==
    \/ ComputeMetrics
    \/ FilterKeys

SpecKeys == InitKeys /\ [][NextKeys]_vars

\* ------------------------------------------------------------- an interrupted train()
\* One train() run without distillation whose process can be stopped at any point of an
\* epoch.  save() (lines 159-174) hands the final path itself to torch.save, which opens
\* the file for writing and fills it in: between the two the file on disk is neither the
\* old checkpoint nor the new one.
SaveConfigs ==
    {x \in Configs : /\ x.warmup_epochs = 0 /\ ~x.cross_align
                     /\ x.distill_epoch = 0 /\ x.distill_mode = "pretraining"}
SaveSetups ==
    {Setup(c, l, [student |-> <<"mAP">>, teacher |-> <<"mAP">>], <<"train">>) :
        c \in SaveConfigs, l \in {x \in Loaders : x.student >= 1 /\ x.teacher = 1}}
    \cup
    {Setup(c, [student |-> 1, teacher |-> 1], [student |-> k, teacher |-> <<"mAP">>], <<"train">>) :
        c \in SaveConfigs, k \in StudentShapes}

InitSave ==
    /\ \E s \in SaveSetups : Constructed(s)
    /\ step = IdleStep
    /\ report = IdleReport
    /\ kd = IdleLoss

unsaved == <<config, loader_len, metric_keys, step, report, kd, script, call, err, weights, training,
             opt_steps, sched_steps, hooks, features, param_groups, batch_num, stream, losses,
             accumulators, graph, entry, fwd, iters_made, draws, dsteps, distilled,
             batch_losses, on_scenario>>

\* lines 634 and 159-174: save('student', last_student_cp) opens the 'last' file
OpenLast ==
    /\ pc = "t_save" /\ call = "train"
    /\ torn' = torn \cup {"last_student_cp"}
    /\ pc' = "t_save_write"
    /\ UNCHANGED <<unsaved, cp, wrote, epoch, selection, sels>>

\* line 174: torch.save has written the whole 'last' file
CloseLast ==
    /\ pc = "t_save_write" /\ call = "train"
    /\ cp' = Saved("student", "last_student_cp")
    /\ torn' = torn \ {"last_student_cp"}
    /\ wrote' = wrote \cup {"last_student_cp"}
    /\ pc' = "t_select"
    /\ UNCHANGED <<unsaved, epoch, selection, sels>>

\* lines 635-641 and 159-174: the selection value, the comparison and, when the value is
\* the best so far, save('student', best_student_cp) opening the 'best' file
SelectAndOpenBest ==
    /\ pc = "t_select" /\ call = "train"
    /\ LET cur == LastWith(current_metrics, "mAP", current_metric)
       IN /\ current_metric' = cur
          /\ sels' = Append(sels, cur[1])
          /\ IF IsBest(cur[1], best_metric)
             THEN /\ best_metric' = cur[1]
                  /\ torn' = torn \cup {"best_student_cp"}
                  /\ pc' = "t_best_write"
                  /\ UNCHANGED <<epoch, current_metrics>>
             ELSE /\ epoch' = epoch + 1
                  /\ current_metrics' = <<>>
                  /\ pc' = "t_epoch"
                  /\ UNCHANGED <<best_metric, torn>>
    /\ UNCHANGED <<unsaved, cp, wrote>>

\* line 174: torch.save has written the whole 'best' file; the epoch is over
CloseBest ==
    /\ pc = "t_best_write" /\ call = "train"
    /\ cp' = Saved("student", "best_student_cp")
    /\ torn' = torn \ {"best_student_cp"}
    /\ wrote' = wrote \cup {"best_student_cp"}
    /\ epoch' = epoch + 1
    /\ current_metrics' = <<>>
    /\ pc' = "t_epoch"
    /\ UNCHANGED <<unsaved, current_metric, best_metric, sels>>

\* the process is stopped inside an epoch: nothing of train() runs after it
Interrupt ==
    /\ call = "train"
    /\ pc \in {"t_student", "t_backward", "t_average", "t_test", "t_save", "t_save_write",
               "t_select", "t_best_write"}
    /\ pc' = "interrupted"
    /\ UNCHANGED <<unsaved, cp, torn, wrote, epoch, selection, sels>>

NextSave ==
    \/ TrainCall
    \/ TrainEpochBegin
    \/ TrainReturn
    \/ StudentForward
    \/ BackwardStep
    \/ TrainAverage
    \/ TrainTest
    \/ OpenLast
    \/ CloseLast
    \/ SelectAndOpenBest
    \/ CloseBest
    \/ Interrupt

SpecSave == InitSave /\ [][NextSave]_vars

\* ------------------------------------------------------------- distill_loss()
\* One call of distill_loss (lines 321-329) on two matrices of equal shape.  A matrix is a
\* sequence of rows of MaxWidth integers; dividing it by T keeps each entry as the pair
\* <<entry, T>>, a fraction whose denominator 0 stands for the inf and nan that a division
\* by 0 gives.  The value returned is known by its sign: "zero", "positive", "negative",
\* or "nan".
Logits == {0, 1}
Rows == [1..MaxWidth -> Logits]
Matrices == SeqsUpTo(Rows, MaxRows)
Weights == {0, 2}
Temperatures == {0, 1, 2}

\* the argument when it is given, the configured value when it is None (lines 322-325)
Given(arg, configured) == IF arg = <<>> THEN configured ELSE arg[1]

\* x / T, entry by entry
Divided(x, T) == [r \in 1..Len(x) |-> [i \in 1..MaxWidth |-> <<x[r][i], T>>]]

\* softmax(..., dim=1): a row of logits gives the distribution that its differences to
\* the first logit determine
Softmax(x) == [r \in 1..Len(x) |-> [i \in 1..MaxWidth |-> <<x[r][i][1] - x[r][1][1], x[r][i][2]>>]]

\* log_softmax(..., dim=1): the logarithm of the same distribution
LogSoftmax(x) == Softmax(x)

\* KLDivLoss(reduction='batchmean')(input, target): the pointwise divergence summed and
\* divided by the number of rows; 0 exactly when every row of target is the distribution
\* of the same row of input, nan over inf or nan entries and over no row (0 / 0)
KLDivLoss(input, target) ==
    IF Len(input) = 0 \/ \E r \in 1..Len(input), i \in 1..MaxWidth :
                            input[r][i][2] = 0 \/ target[r][i][2] = 0
    THEN "nan"
    ELSE IF \A r \in 1..Len(input), i \in 1..MaxWidth : RatEq(input[r][i], target[r][i])
         THEN "zero" ELSE "positive"

\* the product of a value known by its sign and a number
Times(v, k) ==
    IF v = "nan" THEN "nan"
    ELSE IF v = "zero" \/ k = 0 THEN "zero"
    ELSE IF k > 0 THEN v ELSE "negative"

\* the teacher's distribution taken without the temperature
DistillLoss_TeacherUnscaled(student_outputs, teacher_outputs, alpha, T) ==
    Times(KLDivLoss(LogSoftmax(Divided(student_outputs, T)),
                    Softmax(Divided(teacher_outputs, 1))),
          alpha * T * T)

\* lines 326-329: Engine.distill_loss (distill_loss itself names the local of train())
DistillLoss(student_outputs, teacher_outputs, alpha, T) ==
    Times(KLDivLoss(LogSoftmax(Divided(student_outputs, T)),
                    Softmax(Divided(teacher_outputs, T))),
          alpha * T * T)

\* teacher outputs that differ from the student's: each logit raised by one, and each row
\* reversed
Raised(x) == [r \in 1..Len(x) |-> [i \in 1..MaxWidth |-> x[r][i] + 1]]
Reversed(x) == [r \in 1..Len(x) |-> [i \in 1..MaxWidth |-> x[r][MaxWidth + 1 - i]]]

InitLoss ==
    /\ Constructed(AlignSetup)
    /\ step = IdleStep
    /\ report = IdleReport
    /\ \E x \in Matrices, a \in Weights, t \in Temperatures, named \in BOOLEAN :
       \E y \in {x, Raised(x), Reversed(x)} :
          kd = [stage |-> "called", student_outputs |-> x, teacher_outputs |-> y,
                alpha |-> IF named THEN <<a>> ELSE <<>>,
                T |-> IF named THEN <<t>> ELSE <<>>,
                train |-> IF named THEN [alpha |-> 1, temperature |-> 1]
                          ELSE [alpha |-> a, temperature |-> t],
                out |-> "none"]

\* lines 321-329: the call returns
LossCall ==
    /\ kd.stage = "called"
    /\ kd' = [kd EXCEPT !.stage = "returned",
                        !.out = DistillLoss(kd.student_outputs, kd.teacher_outputs,
                                            Given(kd.alpha, kd.train.alpha),
                                            Given(kd.T, kd.train.temperature))]
    /\ UNCHANGED <<config, loader_len, metric_keys, script, call, pc, err, engine, epoch,
                   batch_num, stream, losses, accumulators, selection, graph, history, step,
                   report, torn, sels>>

NextLoss == LossCall

SpecLoss == InitLoss /\ [][NextLoss]_vars

\* ------------------------------------------------------------- claims
InEpoch == {"t_student", "t_draw", "t_teacher", "t_align", "t_backward",
            "t_average", "t_test", "t_save", "t_select"}
EpochEnd == {"t_average", "t_test", "t_save", "t_select"}

\* C1: in an epoch of train() with distillation exactly one teacher batch is drawn per
\* student batch (batch_num + 1 draws once the step has drawn, L at the end of the
\* epoch), and with a teacher stream of M > 0 batches the draw of lines 385-389 never
\* lets StopIteration escape.
C1_OneTeacherBatchPerStudentBatch ==
    call = "train" =>
        /\ (M > 0 => ~(err.type = "StopIteration" /\ err.line = 389))
        /\ (pc \in InEpoch /\ Distilling(epoch)) =>
              /\ pc \in {"t_student", "t_draw"} => draws = batch_num
              /\ pc \in {"t_teacher", "t_align", "t_backward"} => draws = batch_num + 1
              /\ pc \in EpochEnd => draws = L
        /\ (pc \in InEpoch /\ ~Distilling(epoch)) => draws = 0

\* an epoch of two distillation steps over a one-batch teacher stream has ended: the
\* iterator was exhausted and replaced inside the epoch
C1_Witness ==
    /\ call = "train" /\ pc = "t_average" /\ Distilling(epoch)
    /\ L = 2 /\ M = 1 /\ draws = 2 /\ iters_made >= 2

\* the distillation steps started before step (e, b) of a run: L per epoch from the
\* threshold epoch on
StepsBefore(e, b) ==
    IF config.distill_mode = "pretraining" \/ e < config.distill_epoch THEN 0
    ELSE (e - config.distill_epoch) * L + b

\* C2: the k-th distillation step of a train() run (k = 0, 1, ... across epochs) takes
\* position k mod M of the teacher stream; the iterator is created once before the first
\* epoch, keeps its position from one epoch to the next, and is replaced only when it is
\* exhausted (1 + k div M iterators after step k).
C2_TeacherPositionIsStepModM ==
    (call = "train" /\ pc \in InEpoch \cup {"t_epoch", "idle"}) =>
        /\ dsteps = 0 => (iters_made = 1 /\ teacher_iter = 0)
        /\ (dsteps > 0 /\ M > 0) =>
              /\ teacher_batch = (dsteps - 1) % M
              /\ teacher_iter = teacher_batch + 1
              /\ iters_made = 1 + ((dsteps - 1) \div M)
        /\ pc \in {"t_teacher", "t_align"} => dsteps - 1 = StepsBefore(epoch, batch_num)

\* the third distillation step of a run of one-batch epochs over a two-batch teacher
\* stream: it is in the run's third epoch at least and takes position 0 of a second iterator
C2_Witness ==
    /\ call = "train" /\ pc = "t_teacher" /\ L = 1 /\ M = 2
    /\ dsteps = 3 /\ epoch >= 2 /\ teacher_batch = 0 /\ iters_made = 2

\* C3: at the end of an epoch of train() the student 'best' checkpoint is written if and
\* only if the epoch's selection value is >= the running best; a write sets the running
\* best to that value and stores the current student weights; without a write the running
\* best and the file are unchanged.
C3_BestWrittenIffAtLeastRunningBest ==
    [][(call = "train" /\ pc = "t_select" /\ pc' = "t_epoch") =>
          LET sel == current_metric'[1]
              written == "best_student_cp" \in wrote'
          IN /\ written <=> sel >= best_metric
             /\ written => (best_metric' = sel /\ cp'.best_student_cp = <<weights.student>>)
             /\ ~written => (best_metric' = best_metric /\ cp' = cp)
             /\ (sel < best_metric) => ~written
             /\ (sel = best_metric) => written]_vars

\* an epoch whose selection value ties the running best has written 'best' again
C3_Witness ==
    /\ call = "train" /\ pc = "t_epoch" /\ epoch = 4 /\ on_scenario
    /\ "best_student_cp" \in wrote /\ best_metric = 5 /\ current_metric = <<5>>

ScenarioEpoch == call = "train" /\ pc = "t_epoch" /\ on_scenario /\ epoch \in 1..Len(Scenario)

\* C4 as stated: with the selection values 0.2, 0.5, 0.3, 0.5 over four epochs 'best' is
\* written at epochs 2 and 4 only (not at epoch 1, not at epoch 3).
C4_BestAtEpochs2And4Only ==
    ScenarioEpoch => ("best_student_cp" \in wrote <=> epoch \in {2, 4})

\* C4 amended: with the selection values 0.2, 0.5, 0.3, 0.5 over four epochs 'best' is
\* written at epochs 1, 2 and 4 and not at epoch 3 (0.2 >= the initial running best 0).
C4_BestAtEpochs1And2And4 ==
    ScenarioEpoch => ("best_student_cp" \in wrote <=> epoch \in {1, 2, 4})

\* the fourth epoch of the scenario has ended
C4_Witness == ScenarioEpoch /\ epoch = 4 /\ "best_student_cp" \in wrote

\* C5: after every completed epoch of train() the student 'last' file holds the student
\* weights of the end of that epoch, and after every completed epoch of warmup() the
\* teacher 'last' file holds the teacher weights, for every metric record of the epoch.
C5_LastHoldsEndOfEpochWeights ==
    /\ (call = "train" /\ epoch >= 1 /\ pc \in {"t_epoch", "idle"}) =>
          cp.last_student_cp = <<weights.student>>
    /\ (call = "train" /\ pc = "t_select") => cp.last_student_cp = <<weights.student>>
    /\ (call = "warmup" /\ epoch >= 1 /\ pc \in {"w_epoch", "idle"}) =>
          cp.last_teacher_cp = <<weights.teacher>>
    /\ (call = "warmup" /\ pc = "w_select") => cp.last_teacher_cp = <<weights.teacher>>

\* train() has returned after an epoch that stepped the student, on an engine whose
\* warmup() had completed an epoch that stepped the teacher
C5_Witness ==
    /\ call = "train" /\ pc = "idle" /\ epoch >= 1
    /\ weights.student >= 1 /\ cp.last_student_cp = <<weights.student>>
    /\ weights.teacher >= 1 /\ cp.last_teacher_cp = <<weights.teacher>>

\* C6: train() never changes the teacher: its weights, its optimizer and its scheduler
\* are as they were when train() was entered, and no backward pass of train() reaches
\* the teacher's parameters.
C6_TrainLeavesTeacherUnchanged ==
    call = "train" =>
        /\ weights.teacher = entry.weights.teacher
        /\ opt_steps.teacher = entry.opt_steps.teacher
        /\ sched_steps.teacher = entry.sched_steps.teacher
        /\ "teacher" \notin graph
        /\ "teacher" \notin total_loss.deps

\* train() has returned after a distillation step, on a teacher that warmup() had trained
C6_Witness ==
    /\ call = "train" /\ pc = "idle" /\ dsteps >= 1
    /\ "project" \in graph /\ weights.teacher >= 1 /\ weights.student >= 1

\* C7: a training step takes the distillation branch exactly when the zero-based epoch
\* index is >= distill_epoch and the mode is not 'pretraining'; an epoch that follows
\* an epoch with distillation runs with distillation too.
C7_DistillationFromThresholdEpochOn ==
    call = "train" =>
        /\ pc \in {"t_draw", "t_teacher", "t_align"} =>
              (epoch >= config.distill_epoch /\ config.distill_mode # "pretraining")
        /\ (pc \in {"t_backward"} \cup EpochEnd /\ L > 0) =>
              (distilled <=> (epoch >= config.distill_epoch
                              /\ config.distill_mode # "pretraining"))
        /\ (pc \in EpochEnd /\ L > 0 /\ dsteps > 0) => distilled

\* the second epoch with distillation has ended, after one epoch without
C7_Witness ==
    /\ call = "train" /\ pc = "t_average" /\ config.distill_epoch = 1 /\ epoch = 2
    /\ distilled /\ dsteps = 2 * L /\ L = 2

\* no forward pass of the teacher inside a training step
NoTeacherStep == \A r \in fwd : r.net = "teacher" => r.phase = "probe"

\* the entry of the record that holds the epoch's student_distill_loss
Recorded(kind) == {current_metrics[i].val : i \in {j \in 1..Len(current_metrics) :
                                                   current_metrics[j].kind = kind}}

\* C8: in every training step of an epoch below distill_epoch the distillation term is 0,
\* the loss backpropagated is the base detection loss alone, no teacher forward runs, and
\* the student_distill_loss recorded for the epoch is 0.
C8_BaseLossAloneBeforeThreshold ==
    (call = "train" /\ pc \in InEpoch /\ epoch < config.distill_epoch) =>
        /\ distill_loss = ZeroTensor
        /\ pc # "t_backward" => (total_loss.val = base_loss.val /\ total_loss.deps \subseteq {"student"})
        /\ NoTeacherStep
        /\ epoch_distill_loss[1] = 0
        /\ pc \in {"t_save", "t_select"} => Recorded("student_distill_loss") = {<<0, L>>}

\* the second epoch of two batches has been recorded, below a threshold of 2, in a mode
\* that distils later
C8_Witness ==
    /\ call = "train" /\ pc = "t_select" /\ epoch = 1 /\ config.distill_epoch = 2
    /\ config.distill_mode = "object_level" /\ batch_num = 2 /\ total_loss.val = 2

\* C9: warmup() with warmup_epochs = 0 runs no forward pass, steps neither the teacher
\* optimizer nor the teacher scheduler, leaves the teacher weights as they were and
\* writes no checkpoint.
C9_ZeroEpochWarmupChangesNothing ==
    (call = "warmup" /\ config.warmup_epochs = 0) =>
        /\ fwd = {}
        /\ weights = entry.weights
        /\ opt_steps = entry.opt_steps
        /\ sched_steps = entry.sched_steps
        /\ cp = entry.cp
        /\ wrote = {}
        /\ pc \in {"w_epoch", "idle"}

\* a warmup() of zero epochs has returned, over a teacher stream that has batches and
\* after a train() that had written the student's checkpoints
C9_Witness ==
    /\ call = "warmup" /\ pc = "idle" /\ config.warmup_epochs = 0 /\ M >= 1
    /\ cp.last_student_cp # <<>> /\ cp.last_teacher_cp = <<>>

\* the samples of a batch that carry at least one box
WithBox(batch) == {i \in 1..Len(batch) : Len(batch[i]) >= 1}

RECURSIVE SumOver(_, _, _)
SumOver(I, scaled, a) ==
    IF I = {} THEN <<0, 1>>
    ELSE LET i == CHOOSE x \in I : TRUE
         IN RatAdd(SampleFeature(scaled[i], i, a), SumOver(I \ {i}, scaled, a))
\* the mean of the per-sample anchor features over the samples with a box
MeanOverBoxed(scaled, a) ==
    RatOver(SumOver(WithBox(scaled), scaled, a), Cardinality(WithBox(scaled)))

\* an object-level step on batches that each hold a sample with a box, one of them also a
\* sample without any, and whose anchors all lie inside the maps
MixedStep ==
    /\ step.stage # "idle"
    /\ \A r \in Roles : WithBox(step.target[r]) # {}
    /\ \E r \in Roles : WithBox(step.target[r]) # 1..Len(step.target[r])
    /\ \A r \in Roles :
          Indexable(ScaleBoxes(step.target[r], step.image, step.fmap[r]), step.fmap[r])

\* every aggregate the step has computed is the mean over exactly the samples with a box
AggregatesOverBoxedSamples ==
    \A r \in Roles :
        step.selected[r] # <<>> =>
            \A k \in 1..Len(AnchorNames) :
                RatEq(step.selected[r][k], MeanOverBoxed(step.boxes[r], AnchorNames[k]))

\* C10: in an object-level distillation step, a sample with zero boxes contributes to
\* none of the 9 anchor aggregates: when at least one sample of the batch has a box, each
\* anchor's batch aggregate is the mean over exactly the samples with one box or more
\* (the divisor is the number of such samples, not the batch size), and the step
\* completes without error.
C10_ZeroBoxSampleLeftOutAndStepCompletes ==
    MixedStep => /\ step.err = NoError
                 /\ AggregatesOverBoxedSamples

\* the half of C10 about the aggregates alone
C10_AggregatesAlone == MixedStep => AggregatesOverBoxedSamples

\* the batch of role r holds no box at all
NoBoxes(r) == WithBox(step.target[r]) = {}

\* C11: in an object-level distillation step, if no sample of the student batch has a box,
\* or no sample of the teacher batch has a box, the step ends in an error before any loss
\* is computed and before the student optimizer is stepped: no aggregate is produced for
\* the empty batch and the step never goes past the aggregation, every stage up to which
\* continues, so that it stops only where it has raised.
C11_AllEmptyBatchEndsInError ==
    (step.stage # "idle" /\ \E r \in Roles : NoBoxes(r)) =>
        /\ step.stage \in {"scale", "negative", "student", "teacher", "error"}
        /\ step.loss = <<>>
        /\ opt_steps.student = 0
        /\ \A r \in Roles : NoBoxes(r) => step.selected[r] = <<>>
        /\ step.stage = "error" <=> step.err \in ObjectLevelErrors

C11_Witness ==
    /\ ~NoBoxes("student") /\ NoBoxes("teacher")
    /\ step.stage = "error"
    /\ step.err = [type |-> "ZeroDivisionError", line |-> 564]
    /\ step.selected.student # <<>>

\* the step has scaled its boxes
Scaled == step.stage \notin {"idle", "scale"}

\* C12: for every box whose coordinates lie inside the input image and every feature-map
\* size H x W, the scaled and rounded box indices used to index the feature map satisfy
\* 0 <= x index <= W-1 and 0 <= y index <= H-1, also when the image or the map is not
\* square.
C12_ScaledIndicesInsideMap ==
    Scaled =>
        \A r \in Roles : \A i \in 1..Len(step.boxes[r]) : \A b \in 1..Len(step.boxes[r][i]) :
            LET box == step.boxes[r][i][b]
            IN /\ 0 <= box[1] /\ box[1] <= step.fmap[r].w - 1
               /\ 0 <= box[3] /\ box[3] <= step.fmap[r].w - 1
               /\ 0 <= box[2] /\ box[2] <= step.fmap[r].h - 1
               /\ 0 <= box[4] /\ box[4] <= step.fmap[r].h - 1

\* the batch of role r has been aggregated and its only box spans the whole map
SingleFullBox(r) ==
    /\ Scaled
    /\ step.selected[r] # <<>>
    /\ \E i \in 1..Len(step.boxes[r]) :
          /\ step.boxes[r][i] = << <<0, 0, step.fmap[r].w - 1, step.fmap[r].h - 1>> >>
          /\ \A j \in 1..Len(step.boxes[r]) : j # i => step.boxes[r][j] = <<>>

\* anchor number k of role r is the feature at position p of the one sample with a box
AnchorAt(r, k, p) ==
    \A i \in WithBox(step.boxes[r]) : RatEq(step.selected[r][k], <<Feature(i, p), 1>>)

CornersOfMap(r) ==
    /\ AnchorAt(r, 1, <<0, 0>>)
    /\ AnchorAt(r, 2, <<0, step.fmap[r].w - 1>>)
    /\ AnchorAt(r, 3, <<step.fmap[r].h - 1, 0>>)
    /\ AnchorAt(r, 4, <<step.fmap[r].h - 1, step.fmap[r].w - 1>>)

\* C13 as stated: for a single box spanning the full feature map, the four corner anchors
\* are the features at (0, 0), (0, W-1), (H-1, 0) and (H-1, W-1), and the center anchor is
\* the feature at (H div 2, W div 2), for every H and W.
C13_CenterAtHalfOfSize ==
    \A r \in Roles :
        SingleFullBox(r) =>
            /\ CornersOfMap(r)
            /\ AnchorAt(r, 5, <<step.fmap[r].h \div 2, step.fmap[r].w \div 2>>)

\* C13 amended: the corner anchors are as stated, and the center anchor is the feature at
\* ((H-1) div 2, (W-1) div 2), the midpoint of the first and the last index.
C13_CenterAtMidpointOfIndices ==
    \A r \in Roles :
        SingleFullBox(r) =>
            /\ CornersOfMap(r)
            /\ AnchorAt(r, 5, <<(step.fmap[r].h - 1) \div 2, (step.fmap[r].w - 1) \div 2>>)

C13_Witness ==
    /\ SingleFullBox("student")
    /\ step.fmap.student.w = 2
    /\ Len(step.boxes.student) = 2
    /\ step.stage = "stepped"

\* C14: every key of the mapping returned by test(mode) has the form mode + ": " + metric
\* name, and the mapping contains no metric of the background class (classes[0]), for any
\* list of class names, including when a class name after the first is a substring of the
\* background class name or of a class-independent metric name.
C14_KeysOfRoleAndNoBackgroundMetric ==
    report.stage = "returned" =>
        \A e \in report.new_dict :
            /\ \E d \in report.metric_dict : e.key = <<report.mode, ":", " ">> \o d.key
            /\ e.from.class # 1

\* the half of C14 about the form of the keys alone
C14_KeysOfRoleAlone ==
    report.stage = "returned" =>
        \A e \in report.new_dict :
            \E d \in report.metric_dict : e.key = <<report.mode, ":", " ">> \o d.key

\* C15: after any sequence of train() calls on one Engine in object_level or image_level
\* mode, the student optimizer holds exactly one projection parameter group beyond its
\* initial groups, added before the first training step; the projection is never
\* registered a second time.
C15_OneProjectionGroup ==
    config.distill_mode \in {"object_level", "image_level"} =>
        /\ param_groups <= 1
        /\ opt_steps.student > 0 => param_groups = 1
        /\ (call = "train" /\ pc = "idle") => param_groups = 1

\* the networks that ran a forward pass in this step of the program
Forwarded == {f.net : f \in fwd' \ fwd}

\* C16: after any sequence of warmup() and train() calls on one Engine, each network's
\* tapped sub-module has at most one capture hook registered, and a forward pass through
\* a network overwrites only that network's own slot of the capture table, leaving the
\* other network's slot unchanged.
C16_OneHookAndOwnSlotOnly ==
    [][/\ \A n \in Networks : hooks'[n] <= 1
       /\ \A n \in Networks :
             (call' = call /\ Forwarded = {n}) =>
                 \A m \in Networks \ {n} : features'[m] = features[m]]_vars

\* the half of C16 about the slots alone
C16_OwnSlotOnly ==
    [][\A n \in Networks :
          (call' = call /\ Forwarded = {n}) =>
              \A m \in Networks \ {n} : features'[m] = features[m]]_vars

\* the activation a forward pass of this training step captures
OfThisStep(grad) == <<[phase |-> "step", epoch |-> epoch, batch |-> batch_num, grad |-> grad]>>

\* C17: in every distillation step, at the moment the two capture slots are read
\* (lines 468-469), the student slot holds the activation of this step's student forward
\* and the teacher slot the activation of this step's teacher forward: no other forward
\* pass of either network (training, evaluation or probe) wrote the slot in between.
C17_SlotsHoldThisStepsActivations ==
    (call = "train" /\ pc = "t_align") =>
        /\ features.student = OfThisStep(TRUE)
        /\ features.teacher = OfThisStep(FALSE)

C17_Witness ==
    /\ call = "train" /\ pc = "t_align"
    /\ epoch = 1 /\ batch_num = 1
    /\ config.distill_mode = "image_level"
    /\ \E f \in fwd : f.phase = "test"

\* C18: every forward pass of the teacher executed during train(), including the
\* shape-probing forward of image-level instantiation, runs with gradients disabled and
\* with the teacher in eval mode.
C18_TeacherForwardsNoGradAndEval ==
    call = "train" =>
        \A f \in fwd : f.net = "teacher" => (~f.grad /\ ~f.train)

\* the half of C18 about the gradients alone
C18_TeacherForwardsNoGrad ==
    call = "train" =>
        \A f \in fwd : f.net = "teacher" => ~f.grad

\* the teacher forwards of the training steps alone
C18_StepForwardsNoGradAndEval ==
    call = "train" =>
        \A f \in fwd : (f.net = "teacher" /\ f.phase = "step") => (~f.grad /\ ~f.train)

\* steps of the student's optimizer and scheduler since the running train() was entered
OptimizerSteps == opt_steps.student - entry.opt_steps.student
SchedulerSteps == sched_steps.student - entry.sched_steps.student

\* C19: in train() the student scheduler is stepped exactly once per epoch, after all
\* batches of that epoch, and the student optimizer exactly once per student batch: after
\* E epochs over a stream of L batches the scheduler has been stepped E times and the
\* optimizer E*L times.
C19_SchedulerPerEpochOptimizerPerBatch ==
    (call = "train" /\ pc # "error") =>
        /\ pc \in {"t_epoch", "idle"} =>
              (SchedulerSteps = epoch /\ OptimizerSteps = epoch * L)
        /\ pc \in {"t_student", "t_draw", "t_teacher", "t_align", "t_backward"} =>
              (SchedulerSteps = epoch /\ OptimizerSteps = epoch * L + batch_num)
        /\ pc = "t_average" =>
              (SchedulerSteps = epoch /\ OptimizerSteps = (epoch + 1) * L /\ batch_num = L)
        /\ pc \in {"t_test", "t_save", "t_select"} =>
              (SchedulerSteps = epoch + 1 /\ OptimizerSteps = (epoch + 1) * L)
        /\ pc = "idle" => epoch = config.epochs

C19_Witness ==
    /\ call = "train" /\ pc = "idle"
    /\ config.epochs = 2 /\ L = 2
    /\ SchedulerSteps = 2 /\ OptimizerSteps = 4

\* the sum of one of the three loss values over the steps of the current epoch
RECURSIVE SumOfLosses(_, _)
SumOfLosses(seq, f) ==
    IF seq = <<>> THEN 0 ELSE seq[1][f] + SumOfLosses(Tail(seq), f)

\* the value an accumulator holds over n: the epoch's sum of loss value f, over n
EpochValue(f, n) == <<SumOfLosses(batch_losses, f), n>>

\* C20: the per-epoch loss values recorded by train() and warmup() depend only on the
\* batches of that epoch: inside an epoch each accumulator holds the sum over the steps
\* this epoch has completed, and the value recorded for the epoch is the sum over the
\* epoch's batches over the number of batches of the training stream (L in train(), M in
\* warmup()), whatever the epochs before it accumulated.
C20_RecordedLossesAreThisEpochsMean ==
    /\ (call = "train" /\ pc \in {"t_student", "t_draw", "t_teacher", "t_align", "t_backward",
                                  "t_average"}) =>
          /\ Len(batch_losses) = batch_num
          /\ epoch_total_loss = EpochValue("total", 1)
          /\ epoch_base_loss = EpochValue("base", 1)
          /\ epoch_distill_loss = EpochValue("distill", 1)
    /\ (call = "train" /\ pc \in {"t_test", "t_save", "t_select"}) =>
          /\ Len(batch_losses) = L
          /\ epoch_total_loss = EpochValue("total", L)
          /\ epoch_base_loss = EpochValue("base", L)
          /\ epoch_distill_loss = EpochValue("distill", L)
    /\ (call = "train" /\ pc \in {"t_save", "t_select"}) =>
          /\ Recorded("student_total_loss") = {EpochValue("total", L)}
          /\ Recorded("student_base_loss") = {EpochValue("base", L)}
          /\ Recorded("student_distill_loss") = {EpochValue("distill", L)}
    /\ (call = "warmup" /\ pc \in {"w_step", "w_average"}) =>
          /\ Len(batch_losses) = batch_num
          /\ epoch_total_loss = EpochValue("total", 1)
          /\ epoch_base_loss = EpochValue("base", 1)
          /\ epoch_distill_loss = EpochValue("distill", 1)
    /\ (call = "warmup" /\ pc \in {"w_test", "w_save", "w_select"}) =>
          /\ Len(batch_losses) = M
          /\ epoch_total_loss = EpochValue("total", M)
    /\ (call = "warmup" /\ pc \in {"w_save", "w_select"}) =>
          /\ Recorded("teacher_loss") = {EpochValue("total", M)}

\* the record of a second epoch of train() over two batches whose losses differ, after a
\* first epoch that accumulated losses of its own
C20_Witness ==
    /\ call = "train" /\ pc = "t_save" /\ epoch = 1 /\ L = 2
    /\ batch_losses[1].base # batch_losses[2].base
    /\ Recorded("student_total_loss") = {EpochValue("total", 2)}
    /\ SumOfLosses(batch_losses, "total") > 0

\* the values the record of the epoch holds under a key of the given kind
ValuesOf(kind) == {<<current_metrics[i].val>> :
                      i \in {j \in 1..Len(current_metrics) : current_metrics[j].kind = kind}}

\* C21: in train() the selection value compared with the running best after an epoch is
\* a value of that epoch's own metric record, whatever keys the record has: the step that
\* selects and compares leaves in current_metric a value the record holds under 'mAP'.
C21_SelectionValueIsOfThisEpochsRecord ==
    [][(call = "train" /\ pc = "t_select" /\ pc' = "t_epoch") =>
           current_metric' \in ValuesOf("mAP")]_vars

\* C22: in warmup() with warmup_epochs >= 1 every epoch completes its checkpoint hand-off
\* without error: no exception escapes from the evaluation, the 'last' write, the
\* selection of the teacher's value from the epoch's record or the 'best' write (lines
\* 304-318 of warmup()).
C22_WarmupHandOffCompletes ==
    (call = "warmup" /\ config.warmup_epochs >= 1 /\ pc = "error") =>
        err.line \notin 304..318

\* C23: a train() run interrupted at any point of an epoch leaves the checkpoints of the
\* epochs before it intact: the 'best' file is whole (it holds what it held at the end of
\* the epoch before, or what this epoch's completed 'best' write put there), and the only
\* file a write of the interrupted epoch can have left unfinished is the 'last' one.
C23_InterruptLosesOnlyLastWrite ==
    pc = "interrupted" => torn \subseteq {"last_student_cp"}

\* the temperature and the weight the call works with
Temperature == Given(kd.T, kd.train.temperature)
Alpha == Given(kd.alpha, kd.train.alpha)
SameOutputs == kd.stage = "returned" /\ kd.teacher_outputs = kd.student_outputs

\* C24 as stated: distill_loss(x, x, alpha, T) is 0 for every input x, every weight alpha
\* and every temperature T.
C24_ZeroOnIdenticalOutputs ==
    SameOutputs => kd.out = "zero"

\* C24: distill_loss(x, x, alpha, T) is 0 for every input x of at least one row, every
\* weight alpha and every temperature T other than 0, whether alpha and T are passed or
\* taken from the configuration.
C24_ZeroOnIdenticalOutputsAtNonZeroT ==
    (SameOutputs /\ Len(kd.student_outputs) > 0 /\ Temperature # 0) => kd.out = "zero"

\* identical outputs with a row that is not flat, a temperature of 2 and a weight of 2
C24_Witness ==
    /\ SameOutputs /\ Temperature = 2 /\ Alpha = 2
    /\ \E r \in 1..Len(kd.student_outputs) : kd.student_outputs[r][1] # kd.student_outputs[r][2]
    /\ kd.out = "zero"

\* the mean, over the boxes of sample i, of the feature read at anchor a
RECURSIVE FeaturesOfBoxes(_, _, _, _)
FeaturesOfBoxes(B, boxes, i, a) ==
    IF B = {} THEN 0
    ELSE LET b == CHOOSE x \in B : TRUE
         IN Feature(i, Anchor(boxes[b], a)) + FeaturesOfBoxes(B \ {b}, boxes, i, a)
MeanOfBoxes(boxes, i, a) == <<FeaturesOfBoxes(DOMAIN boxes, boxes, i, a), Len(boxes)>>

\* the mean of those per-sample means over the samples of I
RECURSIVE SumOfMeans(_, _, _)
SumOfMeans(I, scaled, a) ==
    IF I = {} THEN <<0, 1>>
    ELSE LET i == CHOOSE x \in I : TRUE
         IN RatAdd(MeanOfBoxes(scaled[i], i, a), SumOfMeans(I \ {i}, scaled, a))
TwoStageMean(scaled, a) ==
    RatOver(SumOfMeans(WithBox(scaled), scaled, a), Cardinality(WithBox(scaled)))

\* the single mean over all the boxes of the batch
RECURSIVE SumOfAll(_, _, _)
SumOfAll(I, scaled, a) ==
    IF I = {} THEN 0
    ELSE LET i == CHOOSE x \in I : TRUE
         IN FeaturesOfBoxes(DOMAIN scaled[i], scaled[i], i, a) + SumOfAll(I \ {i}, scaled, a)
RECURSIVE BoxCount(_, _)
BoxCount(I, scaled) ==
    IF I = {} THEN 0
    ELSE LET i == CHOOSE x \in I : TRUE IN Len(scaled[i]) + BoxCount(I \ {i}, scaled)
SingleMean(scaled, a) == <<SumOfAll(DOMAIN scaled, scaled, a), BoxCount(DOMAIN scaled, scaled)>>

\* C25: for each of the 9 anchor tags and each network side, the batch aggregate of an
\* object-level step is the mean, over the samples with at least one box, of the
\* per-sample means over that sample's boxes (divisor: the sample's box count); stated
\* where both sides have been aggregated and the loss is about to use them.
C25_AggregateIsMeanOfSampleMeans ==
    \A r \in Roles :
        step.stage = "loss" =>
            /\ Len(step.selected[r]) = 9
            /\ \A k \in 1..9 :
                  RatEq(step.selected[r][k], TwoStageMean(step.boxes[r], AnchorNames[k]))

\* a student batch of two samples with different box counts has been aggregated, and at
\* every anchor the aggregate is the mean of the sample means and not the single mean over
\* all the boxes
C25_Witness ==
    /\ step.stage = "loss"
    /\ Len(step.boxes.student) = 2
    /\ Len(step.boxes.student[1]) = 1 /\ Len(step.boxes.student[2]) = 2
    /\ \A k \in 1..9 :
          /\ RatEq(step.selected.student[k], TwoStageMean(step.boxes.student, AnchorNames[k]))
          /\ ~RatEq(step.selected.student[k], SingleMean(step.boxes.student, AnchorNames[k]))

\* the kinds of the entries of the epoch's record, in order
KindsOf(rec) == [i \in 1..Len(rec) |-> rec[i].kind]
LossKinds == <<"student_total_loss", "student_base_loss", "student_distill_loss">>

\* C26: at the end of every epoch of train() that runs to its end the steps occur in this
\* order and each once: student scheduler step, evaluation of the student, merge of the
\* three loss averages into the record the evaluation returned, write of the 'last'
\* checkpoint, then the conditional write of the 'best' checkpoint; so a 'best' file
\* written in an epoch follows a 'last' file written in that epoch with the same weights.
C26_EpochEndOrder ==
    (call = "train" /\ pc # "error") =>
        /\ pc = "t_average" =>
              /\ SchedulerSteps = epoch /\ wrote = {}
              /\ training.student
        /\ pc = "t_test" =>
              /\ SchedulerSteps = epoch + 1 /\ wrote = {}
              /\ training.student
        /\ pc = "t_save" =>
              /\ SchedulerSteps = epoch + 1 /\ wrote = {}
              /\ ~training.student
              /\ KindsOf(current_metrics) = metric_keys.student \o LossKinds
        /\ pc = "t_select" =>
              /\ SchedulerSteps = epoch + 1 /\ wrote = {"last_student_cp"}
              /\ cp.last_student_cp = <<weights.student>>
              /\ KindsOf(current_metrics) = metric_keys.student \o LossKinds
        /\ (pc \in {"t_epoch", "idle"} /\ epoch > 0) =>
              /\ SchedulerSteps = epoch
              /\ "last_student_cp" \in wrote /\ wrote \subseteq {"last_student_cp", "best_student_cp"}
              /\ cp.last_student_cp = <<weights.student>>
              /\ "best_student_cp" \in wrote => cp.best_student_cp = cp.last_student_cp

\* a second epoch has ended with both files written
C26_Witness ==
    /\ call = "train" /\ pc = "t_epoch" /\ epoch = 2 /\ L = 2
    /\ wrote = {"last_student_cp", "best_student_cp"}
    /\ cp.best_student_cp = <<4>> /\ cp.last_student_cp = <<4>>

\* C27: epochs of train() that run without distillation (epoch below distill_epoch, or
\* mode 'pretraining') draw nothing from the teacher stream: all through such an epoch the
\* iterator made at line 367 is the only one and nothing has been taken from it, so the
\* first distillation step of the run takes the first batch of that iterator.
C27_NoDrawWithoutDistillation ==
    (call = "train" /\ pc \in InEpoch \cup EpochEnd) =>
        /\ (epoch < config.distill_epoch \/ config.distill_mode = "pretraining") =>
              /\ draws = 0 /\ dsteps = 0
              /\ teacher_iter = 0 /\ iters_made = 1
              /\ pc \notin {"t_draw", "t_teacher", "t_align"}
        /\ (pc = "t_teacher" /\ dsteps = 1) =>
              /\ teacher_batch = 0 /\ teacher_iter = 1 /\ iters_made = 1
              /\ epoch = config.distill_epoch /\ batch_num = 0

\* the first distillation step of a run whose first two epochs ran without distillation
C27_Witness ==
    /\ call = "train" /\ pc = "t_teacher" /\ dsteps = 1
    /\ config.distill_epoch = 2 /\ epoch = 2 /\ L = 2 /\ M = 2
    /\ opt_steps.student - entry.opt_steps.student = 4
    /\ teacher_batch = 0 /\ teacher_iter = 1

\* C28: in every epoch of train() the recorded student_total_loss is the recorded
\* student_base_loss plus the recorded student_distill_loss (all three over the same L),
\* and in every step of the epoch the total is the base loss plus the distillation term
\* accumulated for that step.
C28_TotalIsBasePlusDistill ==
    (call = "train" /\ pc \in {"t_save", "t_select"}) =>
        /\ \A i \in 1..Len(batch_losses) :
              batch_losses[i].total = batch_losses[i].base + batch_losses[i].distill
        /\ LET total == Recorded("student_total_loss")
               base == Recorded("student_base_loss")
               distill == Recorded("student_distill_loss")
           IN /\ Cardinality(total) = 1 /\ Cardinality(base) = 1 /\ Cardinality(distill) = 1
              /\ \A t \in total, b \in base, d \in distill :
                    /\ t[1] = b[1] + d[1]
                    /\ t[2] = L /\ b[2] = L /\ d[2] = L

\* the record of an epoch of two distillation steps
C28_Witness ==
    /\ call = "train" /\ pc = "t_select" /\ L = 2 /\ distilled
    /\ Recorded("student_base_loss") = {<<3, 2>>}
    /\ Recorded("student_distill_loss") = {<<6, 2>>}
    /\ Recorded("student_total_loss") = {<<9, 2>>}

\* the values compared so far in the run, with the initial running best
Seen == {0} \cup {sels[e] : e \in 1..Len(sels)}
MaxSeen == CHOOSE m \in Seen : \A v \in Seen : v <= m
\* the epochs (counted from 1) whose value is the maximum, and the student weights at the
\* end of the latest of them
EpochsOfMax == {e \in 1..Len(sels) : sels[e] = MaxSeen}
WeightsOfLatestMax ==
    entry.weights.student + L * (CHOOSE e \in EpochsOfMax : \A f \in EpochsOfMax : f <= e)

\* C29: within one train() run the running best is, after every epoch, the maximum of the
\* initial 0 and the selection values compared so far (so it never decreases); if all of
\* them are negative the 'best' checkpoint has not been written, and otherwise the 'best'
\* file holds the weights of the latest epoch whose value equals that maximum.
C29_BestIsMaxOfSeen ==
    (call = "train" /\ pc # "interrupted") =>
        /\ best_metric = MaxSeen
        /\ pc \in {"t_epoch", "idle"} =>
              /\ Len(sels) = epoch
              /\ (\A e \in 1..Len(sels) : sels[e] < 0) => cp.best_student_cp = <<>>
              /\ (\E e \in 1..Len(sels) : sels[e] >= 0) =>
                    cp.best_student_cp = <<WeightsOfLatestMax>>

\* four epochs of two batches with the values 2, 5, 3, 5: the running best is 5 and the
\* file holds the weights of the fourth epoch
C29_Witness ==
    /\ call = "train" /\ pc = "t_epoch" /\ L = 2
    /\ sels = <<2, 5, 3, 5>>
    /\ best_metric = 5 /\ cp.best_student_cp = <<8>>

\* every sample of the batch of role r has a box, and every anchor of every scaled box
\* lies inside that role's feature map
AllBoxedInBounds(r) ==
    /\ WithBox(step.target[r]) = 1..Len(step.target[r])
    /\ Indexable(ScaleBoxes(step.target[r], step.image, step.fmap[r]), step.fmap[r])

\* C30: an object-level distillation step in which every sample of the student batch (and
\* of the teacher batch) has at least one in-bounds box never fails, whatever the numbers
\* of out-of-box positions of the samples are.
C30_BoxedStepNeverFails ==
    (step.stage # "idle" /\ \A r \in Roles : AllBoxedInBounds(r)) =>
        (step.stage # "error" /\ step.err = NoError)

====
